---- MODULE Spec2Model ----
(***************************************************************************)
(* Model of env/composite_env.cc: the CompositeEnv creation entry points   *)
(* and the five Composite...Wrapper classes that present FileSystem       *)
(* handles (FSWritableFile etc.) through the legacy Env file interfaces.   *)
(*                                                                         *)
(* The FileSystem backend and its handles are collaborators: what they     *)
(* return is drawn nondeterministically from small sets.  Every modern     *)
(* call a wrapper makes is recorded on the handle it was made on (calls),  *)
(* every legacy call on the wrapper it was issued on (legacy).             *)
(***************************************************************************)
EXTENDS Integers, Sequences, FiniteSets, TLC

\* ------------------------------------------------------------------ bounds
\* Creation calls made over a run; the k-th one yields handle k, if any.
MaxCreates == 2
\* Kinds of handle one run creates: the five wrapper classes share no code and
\* no state, so a run works with handles of MaxKinds kinds.
MaxKinds == 1
\* Legacy calls on record, all live wrappers together.
MaxCalls == 2
\* Requests in one MultiRead batch.
MaxReqs == 2

\* ------------------------------------------------------------- value sets
\* An empty std::unique_ptr.
Null == 0

Ids == 1..MaxCreates

Kinds == {"seq", "ra", "wf", "rw", "dir"}

\* The caller's output parameters: two variables of each legacy handle type.
SlotNames == {"a", "b"}

\* IOStatus values a modern call can return.
IOStatusOK == [code |-> "kOk", msg |-> ""]
IOStatusNotFound == [code |-> "kNotFound", msg |-> "no such file"]
IOStatusIOError == [code |-> "kIOError", msg |-> "io failed"]
IOStatuses == {IOStatusOK, IOStatusNotFound, IOStatusIOError}

\* What an FS call can leave in the IODebugContext it was handed.
EmptyDbg == [msg |-> "", counters |-> {}]
TraceDbg == [msg |-> "trace", counters |-> {"req"}]

\* A default-constructed IOOptions: no timeout, no priority.
DefaultIOOptions == [timeout |-> "none", prio |-> "IO_TOTAL", type |-> "kUnknown"]

\* Marks a modern call whose signature has no IOOptions/IODebugContext.
NoCtx == [timeout |-> "n/a", prio |-> "n/a", type |-> "n/a"]
NoDbg == [msg |-> "n/a", counters |-> {}]

\* A default-constructed Slice.
EmptySlice == [buf |-> 0, off |-> 0, n |-> ""]

Paths == {"f"}
EnvOptionsSet == {"default"}
Datas == {"abc"}
\* File offsets: the requests of one MultiRead batch read distinct offsets.
Offsets == 1..MaxReqs
Ranges == {1}
Sizes == {"n1"}
Payloads == {"crc32c:1234"}


\* ------------------------------------------------------------------ state
VARIABLES
  wrapper,     \* wrapper[w]: the Composite...Wrapper object w (its one member target_)
  hstate,      \* hstate[h]: "none" | "live" | "destroyed", the FS handle h
  slot,        \* slot[k][s]: the caller's std::unique_ptr to a legacy handle of kind k
  calls,       \* calls[h]: the modern calls handle h has received, in order
  legacy,      \* legacy[w]: the legacy calls issued on the live wrapper w, in order
  exposed,     \* wrappers whose target() has been taken
  created,     \* created[i]: the kind of handle the i-th creation call asked for
  lastCreate   \* what the latest CompositeEnv creation call saw and returned:
               \* the entry point, the backend call it made and its arguments,
               \* *r before and after, the handle the wrapper in *r wraps, the
               \* backend's status and handle, the status returned, and what
               \* the local `file` held when the call returned

vars == <<wrapper, hstate, slot, calls, legacy, exposed, created, lastCreate>>

\* The number of the next creation call, and of the handle it yields.
nextId == Len(created) + 1

NoWrapper == [kind |-> "none", target |-> Null, alive |-> FALSE]

NoCreate ==
  [op |-> "none", fsop |-> "none", fsargs |-> <<>>,
   kind |-> "none", before |-> Null, after |-> Null, wraps |-> Null,
   backendStatus |-> IOStatusOK, backendFile |-> Null, status |-> IOStatusOK,
   fileAtReturn |-> Null]

Init ==
  /\ wrapper = [w \in Ids |-> NoWrapper]
  /\ hstate = [h \in Ids |-> "none"]
  /\ slot = [k \in Kinds |-> [s \in SlotNames |-> Null]]
  /\ calls = [h \in Ids |-> <<>>]
  /\ legacy = [w \in Ids |-> <<>>]
  /\ exposed = {}
  /\ created = <<>>
  /\ lastCreate = NoCreate

\* ---------------------------------------------------------------- helpers
\* Status::ok().
StatusOk(st) == st.code = "kOk"

\* A Status returned from an IOStatus expression (`return target_->Op(...)`,
\* `status = file_system_->NewX(...)`): the code and the message are copied.
ToStatusDropsMessage(ios) == [code |-> ios.code, msg |-> ""]
ToStatus(ios) == [code |-> ios.code, msg |-> ios.msg]

\* FileOptions(options): the legacy EnvOptions carried into the modern options.
FileOptionsOf(options) == [env_options |-> options, io_options |-> DefaultIOOptions]

\* `IOOptions io_opts;` at the head of a wrapper method.
NewIOOptions(w) == DefaultIOOptions

\* `IODebugContext dbg;` at the head of a wrapper method.
DbgOfLastCall(w) ==
  IF calls[wrapper[w].target] = <<>> THEN EmptyDbg
  ELSE calls[wrapper[w].target][Len(calls[wrapper[w].target])].dbgOut
NewIODebugContext(w) == EmptyDbg

\* `target_->`: the handle a wrapper method calls.
TargetIsLatestHandle(w) == nextId - 1
TargetOf(w) == wrapper[w].target

\* The wrapper constructors, `target_(std::move(target))`: the wrapper takes the
\* handle and the reference it was handed is left empty.
WrapperCtorCopies(kind, file) ==
  [wrapper |-> [kind |-> kind, target |-> file, alive |-> TRUE], file |-> file]
WrapperCtor(kind, file) ==
  [wrapper |-> [kind |-> kind, target |-> file, alive |-> TRUE], file |-> Null]

RECURSIVE SumLen(_, _)
SumLen(f, S) ==
  IF S = {} THEN 0
  ELSE LET x == CHOOSE y \in S : TRUE IN Len(f[x]) + SumLen(f, S \ {x})

TotalCalls == SumLen(legacy, Ids)

\* The wrapper w is one the caller holds in a variable of kind k.
Held(k, w) == \E s \in SlotNames : slot[k][s] = w


\* ------------------------------------------------- CompositeEnv creation
\* What a FileSystem creation call can do: return a status and, through its
\* output parameter, a handle.  OK always comes with a handle; a failing
\* backend may or may not have stored one.
CreateOutcomes ==
  {[st |-> IOStatusOK, file |-> TRUE],
   [st |-> IOStatusNotFound, file |-> FALSE],
   [st |-> IOStatusIOError, file |-> TRUE]}

\* The body shared by the seven creation entry points:
\*   IODebugContext dbg; std::unique_ptr<FSx> file; Status status;
\*   status = file_system_->fsop(args..., &file, &dbg);
\*   if (status.ok()) { r->reset(new Wrapper(file)); }
\*   return status;
\* and then `file` goes out of scope, destroying whatever it still holds.
\* The wrapper built by the k-th creation call is wrapper k; the wrapper *r
\* held before a successful call is destroyed by r->reset, with its handle.
Create(op, kind, fsop, s, fsargs) ==
  \E out \in CreateOutcomes :
    /\ nextId <= MaxCreates
    /\ Cardinality({created[i] : i \in DOMAIN created} \cup {kind}) <= MaxKinds
    /\ LET h == IF out.file THEN nextId ELSE Null
           status == ToStatus(out.st)
           old == slot[kind][s]
           built == WrapperCtor(kind, h)
           fileAtReturn == IF StatusOk(status) THEN built.file ELSE h
           hs1 == IF out.file THEN [hstate EXCEPT ![h] = "live"] ELSE hstate
           hs2 == IF StatusOk(status) /\ old # Null
                  THEN [hs1 EXCEPT ![wrapper[old].target] = "destroyed"]
                  ELSE hs1
           hs3 == IF fileAtReturn # Null
                  THEN [hs2 EXCEPT ![fileAtReturn] = "destroyed"]
                  ELSE hs2
           w1 == IF StatusOk(status) /\ old # Null
                 THEN [wrapper EXCEPT ![old].alive = FALSE]
                 ELSE wrapper
           after == IF StatusOk(status) THEN h ELSE old
       IN /\ wrapper' = IF StatusOk(status) THEN [w1 EXCEPT ![h] = built.wrapper] ELSE w1
          /\ hstate' = hs3
          /\ slot' = [slot EXCEPT ![kind][s] = after]
          /\ created' = Append(created, kind)
          /\ lastCreate' =
               [op |-> op, fsop |-> fsop, fsargs |-> fsargs,
                kind |-> kind, before |-> old, after |-> after,
                wraps |-> IF StatusOk(status) THEN built.wrapper.target
                          ELSE IF old # Null THEN wrapper[old].target ELSE Null,
                backendStatus |-> out.st, backendFile |-> h, status |-> status,
                fileAtReturn |-> fileAtReturn]
          /\ calls' = IF StatusOk(status) /\ old # Null
                       THEN [calls EXCEPT ![wrapper[old].target] = <<>>]
                       ELSE calls
          /\ legacy' = IF StatusOk(status) /\ old # Null
                        THEN [legacy EXCEPT ![old] = <<>>]
                        ELSE legacy
          /\ exposed' = IF StatusOk(status) THEN exposed \ {old} ELSE exposed

NewSequentialFile(s) ==
  \E f \in Paths, options \in EnvOptionsSet :
    Create("NewSequentialFile", "seq", "NewSequentialFile", s,
           <<f, FileOptionsOf(options)>>)

NewRandomAccessFile(s) ==
  \E f \in Paths, options \in EnvOptionsSet :
    Create("NewRandomAccessFile", "ra", "NewRandomAccessFile", s,
           <<f, FileOptionsOf(options)>>)

NewWritableFile(s) ==
  \E f \in Paths, options \in EnvOptionsSet :
    Create("NewWritableFile", "wf", "NewWritableFile", s,
           <<f, FileOptionsOf(options)>>)

ReopenWritableFile(s) ==
  \E fname \in Paths, options \in EnvOptionsSet :
    Create("ReopenWritableFile", "wf", "ReopenWritableFile", s,
           <<fname, FileOptionsOf(options)>>)

ReuseWritableFile(s) ==
  \E fname \in Paths, old_fname \in Paths, options \in EnvOptionsSet :
    Create("ReuseWritableFile", "wf", "ReuseWritableFile", s,
           <<fname, old_fname, FileOptionsOf(options)>>)

NewRandomRWFile(s) ==
  \E fname \in Paths, options \in EnvOptionsSet :
    Create("NewRandomRWFile", "rw", "NewRandomRWFile", s,
           <<fname, FileOptionsOf(options)>>)

NewDirectory(s) ==
  \E name \in Paths :
    Create("NewDirectory", "dir", "NewDirectory", s, <<name, DefaultIOOptions>>)

\* The caller lets go of a legacy handle: the wrapper is destroyed and its
\* member target_ destroys the handle it owns.  The records of both go with them.
DestroyWrapper(k, s) ==
  /\ slot[k][s] # Null
  /\ LET w == slot[k][s] IN
       /\ wrapper' = [wrapper EXCEPT ![w].alive = FALSE]
       /\ hstate' = [hstate EXCEPT ![wrapper[w].target] = "destroyed"]
       /\ slot' = [slot EXCEPT ![k][s] = Null]
       /\ calls' = [calls EXCEPT ![wrapper[w].target] = <<>>]
       /\ legacy' = [legacy EXCEPT ![w] = <<>>]
       /\ exposed' = exposed \ {w}
       /\ UNCHANGED <<created, lastCreate>>


\* ------------------------------------------------------ wrapper methods
\* What an FS call that takes (IOOptions, IODebugContext*) can come back with.
CtxOutcomes ==
  {[st |-> IOStatusOK, dbg |-> TraceDbg],
   [st |-> IOStatusNotFound, dbg |-> EmptyDbg],
   [st |-> IOStatusIOError, dbg |-> TraceDbg]}

\* One legacy method body `return target_->mop(margs..., io_opts, ..., &dbg);`
\* on wrapper w of kind k: the modern call lands on the handle target_ names,
\* the legacy call returns lret and stores lres through its output parameters.
Forward(w, k, lop, largs, lret, lres, mop, margs, ctx, mret, mres, dbgOut) ==
  /\ w # Null
  /\ Held(k, w)
  /\ TotalCalls < MaxCalls
  /\ LET h == TargetOf(w) IN
       /\ calls' = [calls EXCEPT ![h] = Append(@,
             [op |-> mop, args |-> margs,
              opts |-> IF ctx THEN NewIOOptions(w) ELSE NoCtx,
              dbg |-> IF ctx THEN NewIODebugContext(w) ELSE NoDbg,
              dbgOut |-> IF ctx THEN dbgOut ELSE NoDbg,
              ret |-> mret, res |-> mres, live |-> hstate[h] = "live"])]
       /\ legacy' = [legacy EXCEPT ![w] = Append(@,
             [op |-> lop, args |-> largs, ret |-> lret, res |-> lres])]
       /\ UNCHANGED <<wrapper, hstate, slot, exposed, created, lastCreate>>

\* A method returning the Status of a modern call with (io_opts, &dbg).
FwdStatusCtx(w, k, lop, largs, mop, margs) ==
  \E out \in CtxOutcomes :
    Forward(w, k, lop, largs, ToStatus(out.st), <<>>, mop, margs, TRUE, out.st, <<>>, out.dbg)

\* A method returning the Status of a modern call without them.
FwdStatus(w, k, lop, largs, mop, margs) ==
  \E st \in IOStatuses :
    Forward(w, k, lop, largs, ToStatus(st), <<>>, mop, margs, FALSE, st, <<>>, NoDbg)

\* A read: the modern call fills *result (pointing into scratch) and returns a status.
FwdRead(w, k, lop, largs, mop, margs, slice) ==
  \E out \in CtxOutcomes, res \in {slice, EmptySlice} :
    /\ ~StatusOk(out.st) => res = EmptySlice
    /\ Forward(w, k, lop, largs, ToStatus(out.st), <<res>>, mop, margs, TRUE,
               out.st, <<res>>, out.dbg)

\* A method returning a plain value (bool, size_t, enum) of the modern call.
FwdValue(w, k, lop, largs, mop, margs, ctx, vals) ==
  \E v \in vals, d \in {TraceDbg} :
    Forward(w, k, lop, largs, [val |-> v], <<>>, mop, margs, ctx, [val |-> v], <<>>, d)

Void == {"void"}
Bools == {"true"}
Alignments == {"4096"}
IdSizes == {"16"}
Scratch == 1

\* --- CompositeSequentialFileWrapper
Seq_Read(w) ==
  \E n \in Sizes :
    FwdRead(w, "seq", "Read", <<n, Scratch>>, "Read", <<n, Scratch>>,
            [buf |-> Scratch, off |-> 0, n |-> n])

Seq_Skip(w) ==
  \E n \in Sizes : FwdStatus(w, "seq", "Skip", <<n>>, "Skip", <<n>>)

Seq_use_direct_io(w) ==
  FwdValue(w, "seq", "use_direct_io", <<>>, "use_direct_io", <<>>, FALSE, Bools)

Seq_GetRequiredBufferAlignment(w) ==
  FwdValue(w, "seq", "GetRequiredBufferAlignment", <<>>,
           "GetRequiredBufferAlignment", <<>>, FALSE, Alignments)

Seq_InvalidateCache(w) ==
  \E offset \in Ranges, length \in Sizes :
    FwdStatus(w, "seq", "InvalidateCache", <<offset, length>>,
              "InvalidateCache", <<offset, length>>)

Seq_PositionedRead(w) ==
  \E offset \in Ranges, n \in Sizes :
    FwdRead(w, "seq", "PositionedRead", <<offset, n, Scratch>>,
            "PositionedRead", <<offset, n, Scratch>>,
            [buf |-> Scratch, off |-> offset, n |-> n])


\* --- CompositeRandomAccessFileWrapper
RA_Read(w) ==
  \E offset \in Ranges, n \in Sizes :
    FwdRead(w, "ra", "Read", <<offset, n, Scratch>>, "Read", <<offset, n, Scratch>>,
            [buf |-> Scratch, off |-> offset, n |-> n])

\* What the caller's ReadRequest array holds on entry: result and status are
\* whatever an earlier use left there.
StaleSlice == [buf |-> 0, off |-> 0, n |-> "stale"]
StaleStatus == [code |-> "kCorruption", msg |-> "stale"]

ReadRequests(N) ==
  {r \in [1..N -> [offset : Offsets, len : Sizes, scratch : {Scratch},
                   result : {StaleSlice}, status : {StaleStatus}]] :
     \A i, j \in 1..N : i # j => r[i].offset # r[j].offset}

\* scratch of request i is the caller's i-th buffer.
WithBuffers(reqs) == [i \in 1..Len(reqs) |-> [reqs[i] EXCEPT !.scratch = i]]

\* fs_reqs.resize(num_reqs) and the first loop of MultiRead.
ToFSReadRequestsKeepsStatus(reqs, num_reqs) ==
  [i \in 1..num_reqs |->
     [offset |-> reqs[i].offset, len |-> reqs[i].len, scratch |-> reqs[i].scratch,
      result |-> EmptySlice, status |-> reqs[i].status]]
ToFSReadRequests(reqs, num_reqs) ==
  [i \in 1..num_reqs |->
     [offset |-> reqs[i].offset, len |-> reqs[i].len, scratch |-> reqs[i].scratch,
      result |-> EmptySlice, status |-> IOStatusOK]]

\* The second loop of MultiRead.
CopyBackShifted(reqs, fs_reqs, num_reqs) ==
  [i \in 1..Len(reqs) |->
     IF i <= num_reqs
     THEN [reqs[i] EXCEPT !.result = fs_reqs[(i % num_reqs) + 1].result,
                          !.status = ToStatus(fs_reqs[(i % num_reqs) + 1].status)]
     ELSE reqs[i]]
CopyBack(reqs, fs_reqs, num_reqs) ==
  [i \in 1..Len(reqs) |->
     IF i <= num_reqs
     THEN [reqs[i] EXCEPT !.result = fs_reqs[i].result,
                          !.status = ToStatus(fs_reqs[i].status)]
     ELSE reqs[i]]

\* What FSRandomAccessFile::MultiRead can do to one element: leave it alone,
\* read it (result points into the element's scratch), or fail it.
ElementChoices == {"skip", "ok", "err"}
FSMultiRead(fs_reqs, choice) ==
  [i \in 1..Len(fs_reqs) |->
     CASE choice[i] = "skip" -> fs_reqs[i]
       [] choice[i] = "ok" ->
            [fs_reqs[i] EXCEPT !.result = [buf |-> fs_reqs[i].scratch,
                                           off |-> fs_reqs[i].offset,
                                           n |-> fs_reqs[i].len]]
       [] OTHER -> [fs_reqs[i] EXCEPT !.status = IOStatusIOError]]

RA_MultiRead(w) ==
  \E num_reqs \in 0..MaxReqs :
    \E r \in ReadRequests(num_reqs), choice \in [1..num_reqs -> ElementChoices],
       out \in {[st |-> IOStatusOK, dbg |-> TraceDbg],
                [st |-> IOStatusIOError, dbg |-> EmptyDbg]} :
      LET reqs == WithBuffers(r)
          fs_in == ToFSReadRequests(reqs, num_reqs)
          fs_out == FSMultiRead(fs_in, choice)
      IN Forward(w, "ra", "MultiRead", <<reqs, num_reqs>>, ToStatus(out.st),
                 CopyBack(reqs, fs_out, num_reqs),
                 "MultiRead", <<fs_in, num_reqs>>, TRUE, out.st, fs_out, out.dbg)

RA_Prefetch(w) ==
  \E offset \in Ranges, n \in Sizes :
    FwdStatusCtx(w, "ra", "Prefetch", <<offset, n>>, "Prefetch", <<offset, n>>)

RA_GetUniqueId(w) ==
  \E max_size \in Sizes :
    FwdValue(w, "ra", "GetUniqueId", <<"id", max_size>>,
             "GetUniqueId", <<"id", max_size>>, FALSE, IdSizes)

\* Access patterns, by ordinal.  (FSRandomAccessFile::AccessPattern)pattern is
\* the modern enumerator with the ordinal of the legacy one.
AccessPatterns == {1}
AccessPatternCast(pattern) == pattern
RA_Hint(w) ==
  \E pattern \in AccessPatterns :
    FwdValue(w, "ra", "Hint", <<pattern>>, "Hint", <<AccessPatternCast(pattern)>>,
             FALSE, Void)

RA_use_direct_io(w) ==
  FwdValue(w, "ra", "use_direct_io", <<>>, "use_direct_io", <<>>, FALSE, Bools)

RA_GetRequiredBufferAlignment(w) ==
  FwdValue(w, "ra", "GetRequiredBufferAlignment", <<>>,
           "GetRequiredBufferAlignment", <<>>, FALSE, Alignments)

RA_InvalidateCache(w) ==
  \E offset \in Ranges, length \in Sizes :
    FwdStatus(w, "ra", "InvalidateCache", <<offset, length>>,
              "InvalidateCache", <<offset, length>>)


\* --- CompositeWritableFileWrapper
Writable_Append(w) ==
  \E data \in Datas :
    FwdStatusCtx(w, "wf", "Append", <<data>>, "Append", <<data>>)

Writable_AppendVerifiedFallsBack(w) ==
  \E data \in Datas, verification_info \in Payloads :
    FwdStatusCtx(w, "wf", "AppendV", <<data, verification_info>>, "Append", <<data>>)
Writable_AppendVerified(w) ==
  \E data \in Datas, verification_info \in Payloads :
    FwdStatusCtx(w, "wf", "AppendV", <<data, verification_info>>,
                 "AppendV", <<data, verification_info>>)

Writable_PositionedAppend(w) ==
  \E data \in Datas, offset \in Ranges :
    FwdStatusCtx(w, "wf", "PositionedAppend", <<data, offset>>,
                 "PositionedAppend", <<data, offset>>)

Writable_PositionedAppendVerified(w) ==
  \E data \in Datas, offset \in Ranges, verification_info \in Payloads :
    FwdStatusCtx(w, "wf", "PositionedAppendV", <<data, offset, verification_info>>,
                 "PositionedAppendV", <<data, offset, verification_info>>)

Writable_Truncate(w) ==
  \E size \in Sizes : FwdStatusCtx(w, "wf", "Truncate", <<size>>, "Truncate", <<size>>)

Writable_CloseReleases(w) ==
  \E out \in CtxOutcomes :
    /\ w # Null
    /\ Held("wf", w)
    /\ TotalCalls < MaxCalls
    /\ calls' = [calls EXCEPT ![TargetOf(w)] = Append(@,
          [op |-> "Close", args |-> <<>>, opts |-> NewIOOptions(w),
           dbg |-> NewIODebugContext(w), dbgOut |-> out.dbg, ret |-> out.st,
           res |-> <<>>, live |-> hstate[TargetOf(w)] = "live"])]
    /\ legacy' = [legacy EXCEPT ![w] = Append(@,
          [op |-> "Close", args |-> <<>>, ret |-> ToStatus(out.st), res |-> <<>>])]
    /\ wrapper' = [wrapper EXCEPT ![w].target = Null]
    /\ hstate' = [hstate EXCEPT ![TargetOf(w)] = "destroyed"]
    /\ UNCHANGED <<slot, exposed, created, lastCreate>>
Writable_Close(w) == FwdStatusCtx(w, "wf", "Close", <<>>, "Close", <<>>)

Writable_Flush(w) == FwdStatusCtx(w, "wf", "Flush", <<>>, "Flush", <<>>)

Writable_Sync(w) == FwdStatusCtx(w, "wf", "Sync", <<>>, "Sync", <<>>)

Writable_Fsync(w) == FwdStatusCtx(w, "wf", "Fsync", <<>>, "Fsync", <<>>)

Writable_IsSyncThreadSafe(w) ==
  FwdValue(w, "wf", "IsSyncThreadSafe", <<>>, "IsSyncThreadSafe", <<>>, FALSE, Bools)

Writable_use_direct_io(w) ==
  FwdValue(w, "wf", "use_direct_io", <<>>, "use_direct_io", <<>>, FALSE, Bools)

Writable_GetRequiredBufferAlignment(w) ==
  FwdValue(w, "wf", "GetRequiredBufferAlignment", <<>>,
           "GetRequiredBufferAlignment", <<>>, FALSE, Alignments)

LifeTimeHints == {"WLTH_SHORT"}

Writable_SetWriteLifeTimeHint(w) ==
  \E hint \in LifeTimeHints :
    FwdValue(w, "wf", "SetWriteLifeTimeHint", <<hint>>,
             "SetWriteLifeTimeHint", <<hint>>, FALSE, Void)

Writable_GetWriteLifeTimeHint(w) ==
  FwdValue(w, "wf", "GetWriteLifeTimeHint", <<>>, "GetWriteLifeTimeHint", <<>>,
           FALSE, LifeTimeHints)

Writable_GetFileSize(w) ==
  FwdValue(w, "wf", "GetFileSize", <<>>, "GetFileSize", <<>>, TRUE, Sizes)

Writable_SetPreallocationBlockSize(w) ==
  \E size \in Sizes :
    FwdValue(w, "wf", "SetPreallocationBlockSize", <<size>>,
             "SetPreallocationBlockSize", <<size>>, FALSE, Void)

Writable_GetPreallocationStatus(w) ==
  FwdValue(w, "wf", "GetPreallocationStatus", <<"block_size", "last_allocated_block">>,
           "GetPreallocationStatus", <<"block_size", "last_allocated_block">>,
           FALSE, Void)

Writable_GetUniqueId(w) ==
  \E max_size \in Sizes :
    FwdValue(w, "wf", "GetUniqueId", <<"id", max_size>>,
             "GetUniqueId", <<"id", max_size>>, FALSE, IdSizes)

Writable_InvalidateCache(w) ==
  \E offset \in Ranges, length \in Sizes :
    FwdStatus(w, "wf", "InvalidateCache", <<offset, length>>,
              "InvalidateCache", <<offset, length>>)

Writable_RangeSync(w) ==
  \E offset \in Ranges, nbytes \in Sizes :
    FwdStatusCtx(w, "wf", "RangeSync", <<offset, nbytes>>,
                 "RangeSync", <<offset, nbytes>>)

Writable_PrepareWrite(w) ==
  \E offset \in Ranges, len \in Sizes :
    FwdValue(w, "wf", "PrepareWrite", <<offset, len>>,
             "PrepareWrite", <<offset, len>>, TRUE, Void)

Writable_Allocate(w) ==
  \E offset \in Ranges, len \in Sizes :
    FwdStatusCtx(w, "wf", "Allocate", <<offset, len>>, "Allocate", <<offset, len>>)

\* target(): hands out the address of the member; nothing else happens.
Writable_target(w) ==
  /\ w # Null
  /\ Held("wf", w)
  /\ w \notin exposed
  /\ exposed' = exposed \cup {w}
  /\ UNCHANGED <<wrapper, hstate, slot, calls, legacy, created, lastCreate>>

\* --- CompositeRandomRWFileWrapper
RW_use_direct_io(w) ==
  FwdValue(w, "rw", "use_direct_io", <<>>, "use_direct_io", <<>>, FALSE, Bools)

RW_GetRequiredBufferAlignment(w) ==
  FwdValue(w, "rw", "GetRequiredBufferAlignment", <<>>,
           "GetRequiredBufferAlignment", <<>>, FALSE, Alignments)

RW_Write(w) ==
  \E offset \in Ranges, data \in Datas :
    FwdStatusCtx(w, "rw", "Write", <<offset, data>>, "Write", <<offset, data>>)

RW_Read(w) ==
  \E offset \in Ranges, n \in Sizes :
    FwdRead(w, "rw", "Read", <<offset, n, Scratch>>, "Read", <<offset, n, Scratch>>,
            [buf |-> Scratch, off |-> offset, n |-> n])

RW_Flush(w) == FwdStatusCtx(w, "rw", "Flush", <<>>, "Flush", <<>>)

RW_Sync(w) == FwdStatusCtx(w, "rw", "Sync", <<>>, "Sync", <<>>)

RW_Fsync(w) == FwdStatusCtx(w, "rw", "Fsync", <<>>, "Fsync", <<>>)

RW_CloseOnce(w) ==
  IF \E i \in DOMAIN legacy[w] : legacy[w][i].op = "Close"
  THEN /\ w # Null
       /\ Held("rw", w)
       /\ TotalCalls < MaxCalls
       /\ legacy' = [legacy EXCEPT ![w] = Append(@,
             [op |-> "Close", args |-> <<>>, ret |-> ToStatus(IOStatusOK), res |-> <<>>])]
       /\ UNCHANGED <<wrapper, hstate, slot, calls, exposed, created, lastCreate>>
  ELSE FwdStatusCtx(w, "rw", "Close", <<>>, "Close", <<>>)
RW_Close(w) == FwdStatusCtx(w, "rw", "Close", <<>>, "Close", <<>>)

\* --- CompositeDirectoryWrapper
\* DirFsyncOptions(): the default reason.
DefaultDirFsyncOptions == [reason |-> "kDefault"]

Dir_Fsync(w) ==
  FwdStatusCtx(w, "dir", "Fsync", <<>>, "FsyncWithDirOptions", <<DefaultDirFsyncOptions>>)

Dir_GetUniqueId(w) ==
  \E max_size \in Sizes :
    FwdValue(w, "dir", "GetUniqueId", <<"id", max_size>>,
             "GetUniqueId", <<"id", max_size>>, FALSE, IdSizes)

\* ------------------------------------------------------- specification
CreateStep ==
  \E s \in SlotNames :
    \/ NewSequentialFile(s)
    \/ NewRandomAccessFile(s)
    \/ NewWritableFile(s)
    \/ ReopenWritableFile(s)
    \/ ReuseWritableFile(s)
    \/ NewRandomRWFile(s)
    \/ NewDirectory(s)

DestroyStep == \E k \in Kinds, s \in SlotNames : DestroyWrapper(k, s)

SeqStep ==
  \E w \in Ids :
    \/ Seq_Read(w)
    \/ Seq_Skip(w)
    \/ Seq_use_direct_io(w)
    \/ Seq_GetRequiredBufferAlignment(w)
    \/ Seq_InvalidateCache(w)
    \/ Seq_PositionedRead(w)

RAStep ==
  \E w \in Ids :
    \/ RA_Read(w)
    \/ RA_MultiRead(w)
    \/ RA_Prefetch(w)
    \/ RA_GetUniqueId(w)
    \/ RA_Hint(w)
    \/ RA_use_direct_io(w)
    \/ RA_GetRequiredBufferAlignment(w)
    \/ RA_InvalidateCache(w)

WFStep ==
  \E w \in Ids :
    \/ Writable_Append(w)
    \/ Writable_AppendVerified(w)
    \/ Writable_PositionedAppend(w)
    \/ Writable_PositionedAppendVerified(w)
    \/ Writable_Truncate(w)
    \/ Writable_Close(w)
    \/ Writable_Flush(w)
    \/ Writable_Sync(w)
    \/ Writable_Fsync(w)
    \/ Writable_IsSyncThreadSafe(w)
    \/ Writable_use_direct_io(w)
    \/ Writable_GetRequiredBufferAlignment(w)
    \/ Writable_SetWriteLifeTimeHint(w)
    \/ Writable_GetWriteLifeTimeHint(w)
    \/ Writable_GetFileSize(w)
    \/ Writable_SetPreallocationBlockSize(w)
    \/ Writable_GetPreallocationStatus(w)
    \/ Writable_GetUniqueId(w)
    \/ Writable_InvalidateCache(w)
    \/ Writable_RangeSync(w)
    \/ Writable_PrepareWrite(w)
    \/ Writable_Allocate(w)
    \/ Writable_target(w)

RWStep ==
  \E w \in Ids :
    \/ RW_use_direct_io(w)
    \/ RW_GetRequiredBufferAlignment(w)
    \/ RW_Write(w)
    \/ RW_Read(w)
    \/ RW_Flush(w)
    \/ RW_Sync(w)
    \/ RW_Fsync(w)
    \/ RW_Close(w)

DirStep ==
  \E w \in Ids :
    \/ Dir_Fsync(w)
    \/ Dir_GetUniqueId(w)

Next ==
  \/ CreateStep
  \/ DestroyStep
  \/ SeqStep
  \/ RAStep
  \/ WFStep
  \/ RWStep
  \/ DirStep

Spec == Init /\ [][Next]_vars


\* ----------------------------------------------------------- properties
Live == {w \in Ids : wrapper[w].alive}

\* The modern call recorded for the i-th legacy call on wrapper w.
Routed(w, i) == wrapper[w].target # Null /\ i \in DOMAIN calls[wrapper[w].target]
ModernCall(w, i) == calls[wrapper[w].target][i]

CreateDone == lastCreate.kind # "none"

\* Legacy methods that return a Status.
StatusOpNames ==
  {"Read", "Skip", "InvalidateCache", "PositionedRead", "MultiRead", "Prefetch",
   "Append", "AppendV", "PositionedAppend", "PositionedAppendV", "Truncate",
   "Close", "Flush", "Sync", "Fsync", "RangeSync", "Allocate", "Write"}

\* Legacy methods whose modern counterpart takes (IOOptions, IODebugContext*).
CtxOpNames ==
  {"Read", "PositionedRead", "MultiRead", "Prefetch", "Append", "AppendV",
   "PositionedAppend", "PositionedAppendV", "Truncate", "Close", "Flush", "Sync",
   "Fsync", "GetFileSize", "RangeSync", "PrepareWrite", "Allocate", "Write"}

\* The modern method a legacy method stands for.
ModernOpOf(kind, lop) ==
  IF kind = "dir" /\ lop = "Fsync" THEN "FsyncWithDirOptions" ELSE lop

\* C1: whenever the backend's creation call fails, the output parameter is
\* empty after the legacy call and the returned status is the backend's status
\* (same kind, same message), whatever the output parameter held before.
C1_FailedCreateLeavesOutputEmpty ==
  (CreateDone /\ ~StatusOk(lastCreate.backendStatus)) =>
    /\ lastCreate.after = Null
    /\ lastCreate.status.code = lastCreate.backendStatus.code
    /\ lastCreate.status.msg = lastCreate.backendStatus.msg

\* C2: the wrapper a successful creation call returns wraps the handle the
\* backend returned for that call, and every legacy call on a wrapper lands on
\* the handle it wraps and on no other handle.
C2_RoutedToOwnHandle ==
  /\ (CreateDone /\ StatusOk(lastCreate.backendStatus)) =>
       /\ lastCreate.backendFile # Null
       /\ lastCreate.after # Null
       /\ lastCreate.wraps = lastCreate.backendFile
  /\ \A w \in Live :
       /\ wrapper[w].target = w
       /\ Len(calls[w]) = Len(legacy[w])
  /\ \A h \in Ids : (h \notin Live) => calls[h] = <<>>

C2_Witness ==
  \E w1, w2 \in Live :
    /\ w1 < w2
    /\ Len(legacy[w1]) = 1
    /\ Len(legacy[w2]) = 1
    /\ lastCreate.after = w2

\* C3: a MultiRead with N requests makes one modern call carrying N elements,
\* element i with the offset, length and scratch of request i, and afterwards
\* request i holds the result and status the modern call left in element i.
C3_MultiReadIndexAligned ==
  \A w \in Live : \A i \in DOMAIN legacy[w] :
    legacy[w][i].op = "MultiRead" =>
      /\ Routed(w, i)
      /\ ModernCall(w, i).op = "MultiRead"
      /\ LET reqs == legacy[w][i].args[1]
             n == legacy[w][i].args[2]
             out == legacy[w][i].res
             fs_in == ModernCall(w, i).args[1]
             fs_out == ModernCall(w, i).res
         IN /\ ModernCall(w, i).args[2] = n
            /\ Len(fs_in) = n
            /\ Len(fs_out) = n
            /\ Len(out) = n
            /\ \A j \in 1..n :
                 /\ fs_in[j].offset = reqs[j].offset
                 /\ fs_in[j].len = reqs[j].len
                 /\ fs_in[j].scratch = reqs[j].scratch
                 /\ out[j].offset = reqs[j].offset
                 /\ out[j].len = reqs[j].len
                 /\ out[j].scratch = reqs[j].scratch
                 /\ out[j].result = fs_out[j].result
                 /\ out[j].status.code = fs_out[j].status.code
                 /\ out[j].status.msg = fs_out[j].status.msg
                 /\ out[j].result # EmptySlice =>
                      /\ out[j].result.off = reqs[j].offset
                      /\ out[j].result.buf = reqs[j].scratch

\* Two requests in descending offset order, both read, with different outcomes.
C3_Witness ==
  \E w \in Live : \E i \in DOMAIN legacy[w] :
    /\ legacy[w][i].op = "MultiRead"
    /\ legacy[w][i].args[2] = 2
    /\ legacy[w][i].args[1][1].offset > legacy[w][i].args[1][2].offset
    /\ legacy[w][i].res[1].result # EmptySlice
    /\ legacy[w][i].res[2].result # EmptySlice
    /\ legacy[w][i].res[1].result # legacy[w][i].res[2].result

\* C4: the legacy Append and PositionedAppend that carry verification info
\* call the modern variants that carry it, with the caller's data, offset and
\* payload; the plain forms call the plain modern variants.
C4_VerifiedAppendForwardsPayload ==
  \A w \in Live : \A i \in DOMAIN legacy[w] :
    (wrapper[w].kind = "wf" /\
     legacy[w][i].op \in {"Append", "AppendV", "PositionedAppend", "PositionedAppendV"}) =>
      /\ Routed(w, i)
      /\ ModernCall(w, i).op = legacy[w][i].op
      /\ ModernCall(w, i).args = legacy[w][i].args
      /\ legacy[w][i].op = "AppendV" =>
           /\ Len(ModernCall(w, i).args) = 2
           /\ ModernCall(w, i).args[2] = legacy[w][i].args[2]
      /\ legacy[w][i].op = "PositionedAppendV" =>
           /\ Len(ModernCall(w, i).args) = 3
           /\ ModernCall(w, i).args[3] = legacy[w][i].args[3]

C4_Witness ==
  \E w \in Live :
    /\ Len(legacy[w]) = 2
    /\ legacy[w][1].op = "AppendV"
    /\ legacy[w][2].op = "PositionedAppendV"
    /\ ModernCall(w, 2).args[3] \in Payloads

\* C5: the status a legacy method returns is the status of the modern call it
\* made: same code and same message, for OK and for every failure.
C5_StatusPropagated ==
  \A w \in Live : \A i \in DOMAIN legacy[w] :
    legacy[w][i].op \in StatusOpNames =>
      /\ Routed(w, i)
      /\ legacy[w][i].ret.code = ModernCall(w, i).ret.code
      /\ legacy[w][i].ret.msg = ModernCall(w, i).ret.msg

C5_Witness ==
  \E w \in Live :
    /\ Len(legacy[w]) = 2
    /\ legacy[w][1].ret.code = "kNotFound"
    /\ legacy[w][1].ret.msg = "no such file"
    /\ legacy[w][2].ret.code = "kOk"
    /\ legacy[w][1].op = legacy[w][2].op


\* C6: the handle a wrapper wraps has received exactly one modern call per
\* legacy call issued on the wrapper, of the matching method and with the
\* caller's arguments, in the order the caller issued them.
SameArgs(kind, lop) == ~(lop = "MultiRead" \/ (kind = "dir" /\ lop = "Fsync"))

C6_OneModernCallPerLegacyCall ==
  \A w \in Live :
    /\ wrapper[w].target # Null
    /\ Len(calls[wrapper[w].target]) = Len(legacy[w])
    /\ \A i \in DOMAIN legacy[w] :
         /\ Routed(w, i)
         /\ ModernCall(w, i).op = ModernOpOf(wrapper[w].kind, legacy[w][i].op)
         /\ SameArgs(wrapper[w].kind, legacy[w][i].op) =>
              ModernCall(w, i).args = legacy[w][i].args

\* A failed Close followed by a second Close, both delivered.
C6_Witness ==
  \E w \in Live :
    /\ Len(legacy[w]) = 2
    /\ legacy[w][1].op = "Close"
    /\ ~StatusOk(legacy[w][1].ret)
    /\ legacy[w][2].op = "Close"
    /\ Len(calls[wrapper[w].target]) = 2

\* C7: in MultiRead every element handed to the modern call has status OK, an
\* element the modern call leaves alone comes back as OK, the elements are
\* copied back whether the call succeeded or failed, and the status returned
\* is the status of the modern call.
C7_MultiReadStatuses ==
  \A w \in Live : \A i \in DOMAIN legacy[w] :
    legacy[w][i].op = "MultiRead" =>
      /\ Routed(w, i)
      /\ legacy[w][i].ret.code = ModernCall(w, i).ret.code
      /\ legacy[w][i].ret.msg = ModernCall(w, i).ret.msg
      /\ \A j \in DOMAIN ModernCall(w, i).args[1] :
           LET fs_in == ModernCall(w, i).args[1][j]
               fs_out == ModernCall(w, i).res[j]
               out == legacy[w][i].res[j]
           IN /\ fs_in.status = IOStatusOK
              /\ fs_in.result = EmptySlice
              /\ (fs_out = fs_in) => (StatusOk(out.status) /\ out.result = EmptySlice)
              /\ out.status.code = fs_out.status.code
              /\ out.result = fs_out.result

\* The call fails, element 1 was left alone and element 2 was read.
C7_Witness ==
  \E w \in Live : \E i \in DOMAIN legacy[w] :
    /\ legacy[w][i].op = "MultiRead"
    /\ ~StatusOk(legacy[w][i].ret)
    /\ legacy[w][i].args[2] = 2
    /\ ModernCall(w, i).res[1] = ModernCall(w, i).args[1][1]
    /\ StatusOk(legacy[w][i].res[1].status)
    /\ legacy[w][i].args[1][1].status = StaleStatus
    /\ legacy[w][i].res[2].result # EmptySlice

\* C8: a live handle is owned by exactly one live wrapper, held in exactly one
\* of the caller's variables; a successful creation call leaves its local
\* handle reference empty; no two wrappers hold the same handle; and no modern
\* call reaches a handle that has been destroyed.
C8_ExclusiveOwnership ==
  /\ \A w1, w2 \in Live : w1 # w2 => wrapper[w1].target # wrapper[w2].target
  /\ \A w \in Live :
       /\ wrapper[w].target # Null
       /\ hstate[wrapper[w].target] = "live"
       /\ Cardinality({s \in SlotNames : slot[wrapper[w].kind][s] = w}) = 1
  /\ \A h \in Ids :
       /\ hstate[h] = "live" => \E w \in Live : wrapper[w].target = h
       /\ hstate[h] = "destroyed" => calls[h] = <<>>
       /\ \A i \in DOMAIN calls[h] : calls[h][i].live
  /\ (CreateDone /\ StatusOk(lastCreate.status)) => lastCreate.fileAtReturn = Null

\* A wrapper whose target() was taken has forwarded calls, next to a handle
\* that was destroyed with its wrapper.
C8_Witness ==
  /\ \E w \in Live : w \in exposed /\ Len(legacy[w]) = 2
  /\ \E h \in Ids : hstate[h] = "destroyed"

\* C9: every modern call that takes them receives a default IOOptions and an
\* empty IODebugContext, whatever earlier modern calls left in theirs.
C9_FreshOptionsAndDebugContext ==
  \A w \in Live : \A i \in DOMAIN legacy[w] :
    legacy[w][i].op \in CtxOpNames =>
      /\ Routed(w, i)
      /\ ModernCall(w, i).opts = DefaultIOOptions
      /\ ModernCall(w, i).opts.timeout = "none"
      /\ ModernCall(w, i).dbg = EmptyDbg

\* The first call left a trace in its debug context; the second got an empty one.
C9_Witness ==
  \E w \in Live :
    /\ Len(legacy[w]) = 2
    /\ legacy[w][1].op \in CtxOpNames
    /\ legacy[w][2].op \in CtxOpNames
    /\ ModernCall(w, 1).dbgOut = TraceDbg
    /\ ModernCall(w, 2).dbg = EmptyDbg

\* C10 as stated: once Close has been delegated the wrapper no longer holds
\* its handle.
CloseDelegated(w) == \E i \in DOMAIN legacy[w] : legacy[w][i].op = "Close"

C10_CloseReleasesHandle ==
  \A w \in Ids : CloseDelegated(w) => wrapper[w].target = Null

\* C10 as amended: a wrapper the caller holds has its handle from construction
\* until it is destroyed, Close or no Close; the handle is live as long as the
\* wrapper is, and destroyed with it.
C10_HandleHeldUntilDestroyed ==
  /\ \A k \in Kinds, s \in SlotNames :
       slot[k][s] # Null =>
         /\ wrapper[slot[k][s]].alive
         /\ wrapper[slot[k][s]].kind = k
         /\ wrapper[slot[k][s]].target = slot[k][s]
         /\ hstate[slot[k][s]] = "live"
  /\ \A w \in Ids :
       (~wrapper[w].alive /\ w <= Len(created)) => hstate[w] # "live"

\* Close was delegated and failed, a later call was still forwarded.
C10_Witness ==
  \E w \in Live :
    /\ Len(legacy[w]) = 2
    /\ legacy[w][1].op = "Close"
    /\ legacy[w][2].op # "Close"
    /\ hstate[wrapper[w].target] = "live"
    /\ Len(calls[wrapper[w].target]) = 2

====
